---------------------------- MODULE Spec2Model ----------------------------
(***************************************************************************)
(* toggdoro: a pomodoro timer reconstructed from Toggl time entries.       *)
(*                                                                         *)
(* The model follows src/src/main.rs: the refresh thread (monitor/update)  *)
(* rewrites the global POMODORO_STATE under its write lock every tick, and *)
(* query handlers (handle_connection) read it under the read lock.         *)
(* Times are whole seconds.                                                *)
(***************************************************************************)
EXTENDS Integers, Sequences, FiniteSets, TLC

(***************************************************************************)
(* Option values: None, or Some(x).                                        *)
(***************************************************************************)
None == << >>
Some(x) == << x >>
IsSome(o) == o # << >>
Unwrap(o) == o[1]

(***************************************************************************)
(* Bounds of the model.                                                    *)
(***************************************************************************)
\* number of query connections that may be open at the same time
NumHandlers == 2
\* saturation of the two observation counters phaseRun and taskRun
MaxRun == 4

(***************************************************************************)
(* Program constants.                                                      *)
(***************************************************************************)
default_pomodoro_min == 25
default_short_break_min == 5
default_long_break_min == 15
default_long_break_after == 4
\* a predecessor further than this from the cursor ends the streak walk
StreakGapSecs == 120
\* escalation thresholds of the second and third notification
SecondNotifySecs == 300
ThirdNotifySecs == 1800
\* u32::MAX = 4294967295, the largest value str::parse::<u32> accepts, as
\* its decimal digits (the number does not fit a 32-bit signed integer)
U32MaxDigits == <<4, 2, 9, 4, 9, 6, 7, 2, 9, 5>>

(***************************************************************************)
(* Tags.  A tag string is modelled as its leading run of ASCII digits      *)
(* followed by the rest of the text, so that the regular expression and    *)
(* the numeric parse of task_min work on what the tag spells.              *)
(***************************************************************************)
Tag(ds, rest) == [digits |-> ds, rest |-> rest]
Tag5min == Tag(<<5>>, "min")
\* "99999999999min": matches the pattern, does not fit a u32
TagHugeMin == Tag(<<9, 9, 9, 9, 9, 9, 9, 9, 9, 9, 9>>, "min")
TagPomodoroBreak == Tag(<< >>, "pomodoro-break")

\* Regex ^(\d+)min$: one or more digits, then exactly "min".
ReMatches(tag) == Len(tag.digits) >= 1 /\ tag.rest = "min"

RECURSIVE DigitsValue(_)
DigitsValue(ds) ==
    IF ds = << >> THEN 0
    ELSE 10 * DigitsValue(SubSeq(ds, 1, Len(ds) - 1)) + ds[Len(ds)]

RECURSIVE StripZeros(_)
StripZeros(ds) ==
    IF ds # << >> /\ Head(ds) = 0 THEN StripZeros(Tail(ds)) ELSE ds

\* a <= b for digit strings of the same length
RECURSIVE DigitsLeq(_, _)
DigitsLeq(a, b) ==
    IF a = << >> THEN TRUE
    ELSE IF Head(a) # Head(b) THEN Head(a) < Head(b)
         ELSE DigitsLeq(Tail(a), Tail(b))

\* The decimal number fits a u32.
FitsU32(ds) ==
    LET d == StripZeros(ds)
    IN  \/ Len(d) < Len(U32MaxDigits)
        \/ Len(d) = Len(U32MaxDigits) /\ DigitsLeq(d, U32MaxDigits)

\* cap[1].parse::<u32>(): the value, or an error when it overflows.
ParseU32(ds) ==
    IF FitsU32(ds) THEN [ok |-> TRUE, val |-> DigitsValue(ds)]
    ELSE [ok |-> FALSE, val |-> 0]

(***************************************************************************)
(* Time entries.                                                           *)
(***************************************************************************)
Entry(start, stop, duration, description, pid, tags) ==
    [start |-> start, stop |-> stop, duration |-> duration,
     description |-> description, pid |-> pid, tags |-> tags]

mode_of_entry(entry) ==
    IF entry.description = "Pomodoro Break" THEN "Break"
    ELSE IF \E i \in 1..Len(entry.tags) : entry.tags[i] = TagPomodoroBreak
         THEN "Break"
         ELSE "Work"

\* Result<Option<u32>, Error>: the first tag that matches decides.
RECURSIVE task_min_from(_, _)
task_min_from(tags, i) ==
    IF i > Len(tags) THEN [ok |-> TRUE, val |-> None]
    ELSE IF ReMatches(tags[i])
         THEN LET p == ParseU32(tags[i].digits)
              IN  IF p.ok THEN [ok |-> TRUE, val |-> Some(p.val)]
                  ELSE [ok |-> FALSE, val |-> None]
         ELSE task_min_from(tags, i + 1)

task_min(entry) == task_min_from(entry.tags, 1)

(***************************************************************************)
(* Configuration.                                                          *)
(***************************************************************************)
PomodoroConfigDefault ==
    [pomodoro_min |-> default_pomodoro_min,
     short_break_min |-> default_short_break_min,
     long_break_min |-> default_long_break_min,
     long_break_after |-> default_long_break_after]

\* The notifier backends in the order update calls them.
BackendOrder == <<"dbus", "slack", "mail">>

\* The backends a configuration turns on, in call order.
ConfiguredBackends(cfg) ==
    LET keep(b) == b \in cfg.notification
    IN  SelectSeq(BackendOrder, keep)

\* a configuration file that sets long_break_after = 1: every break is long
PomodoroConfigLongBreaks == [PomodoroConfigDefault EXCEPT !.long_break_after = 1]

Configs ==
    { [notification |-> n, pomodoro |-> PomodoroConfigDefault] :
        n \in { {}, {"dbus"}, {"dbus", "slack", "mail"} } }
    \cup { [notification |-> {"dbus"}, pomodoro |-> PomodoroConfigLongBreaks] }

(***************************************************************************)
(* Session reconstruction (update, lines 270-340).                         *)
(***************************************************************************)
Last(s) == s[Len(s)]
Front(s) == SubSeq(s, 1, Len(s) - 1)

\* Lines 278-292: time already spent on the same task, newest to oldest.
RECURSIVE ExtraWalk(_, _, _)
ExtraWalk(latest, es, i) ==
    IF i = 0 THEN 0
    ELSE LET x == es[i]
         IN  IF mode_of_entry(x) = "Break" THEN ExtraWalk(latest, es, i - 1)
             ELSE IF /\ latest.description = x.description
                     /\ latest.pid = x.pid
                     /\ latest.tags = x.tags
                  THEN x.duration + ExtraWalk(latest, es, i - 1)
                  ELSE 0

extra_task_duration(latest, es) ==
    IF mode_of_entry(latest) = "Work" THEN ExtraWalk(latest, es, Len(es)) ELSE 0

\* Lines 305-308: merge x into the last bucket of the same mode, or push.
PushHistory(history, mode, d) ==
    IF history # << >> /\ Last(history)[1] = mode
    THEN Append(Front(history), <<mode, Last(history)[2] + d>>)
    ELSE Append(history, <<mode, d>>)

\* StreakWalk with >= in place of the > of line 298.
RECURSIVE StreakWalkGapInclusive(_, _, _, _, _)
StreakWalkGapInclusive(es, i, history, last_start, cfg) ==
    IF i = 0 THEN history
    ELSE LET x == es[i]
             mode == mode_of_entry(x)
         IN  IF ~IsSome(x.stop) THEN history
             ELSE IF last_start - Unwrap(x.stop) >= StreakGapSecs THEN history
             ELSE LET h2 == PushHistory(history, mode, x.duration)
                  IN  IF /\ Last(h2)[1] = "Break"
                         /\ Last(h2)[2] >= cfg.long_break_min * 60
                      THEN Front(h2)
                      ELSE StreakWalkGapInclusive(es, i - 1, h2, x.start, cfg)

\* StreakWalk that stops at a long break without line 312, the pop.
RECURSIVE StreakWalkKeepsLongBreak(_, _, _, _, _)
StreakWalkKeepsLongBreak(es, i, history, last_start, cfg) ==
    IF i = 0 THEN history
    ELSE LET x == es[i]
             mode == mode_of_entry(x)
         IN  IF ~IsSome(x.stop) THEN history
             ELSE IF last_start - Unwrap(x.stop) > StreakGapSecs THEN history
             ELSE LET h2 == PushHistory(history, mode, x.duration)
                  IN  IF /\ Last(h2)[1] = "Break"
                         /\ Last(h2)[2] >= cfg.long_break_min * 60
                      THEN h2
                      ELSE StreakWalkKeepsLongBreak(es, i - 1, h2, x.start, cfg)

\* Lines 294-318: the streak walk, newest to oldest.
RECURSIVE StreakWalk(_, _, _, _, _)
StreakWalk(es, i, history, last_start, cfg) ==
    IF i = 0 THEN history
    ELSE LET x == es[i]
             mode == mode_of_entry(x)
         IN  IF ~IsSome(x.stop) THEN history
             ELSE IF last_start - Unwrap(x.stop) > StreakGapSecs THEN history
             ELSE LET h2 == PushHistory(history, mode, x.duration)
                  IN  IF /\ Last(h2)[1] = "Break"
                         /\ Last(h2)[2] >= cfg.long_break_min * 60
                      THEN Front(h2)
                      ELSE StreakWalk(es, i - 1, h2, x.start, cfg)

StreakHistory(latest, es, cfg) == StreakWalk(es, Len(es), << >>, latest.start, cfg)

\* Npomodoros without the + 1 of line 319.
NpomodorosNoIncrement(history) == Len(history) \div 2

\* Line 319.
Npomodoros(history) == (Len(history) \div 2) + 1

\* PhaseDuration without lines 331-335: nothing is subtracted.
PhaseDurationNoCarry(latest, history, cfg) ==
    IF mode_of_entry(latest) = "Break"
    THEN IF Npomodoros(history) >= cfg.long_break_after
         THEN cfg.long_break_min * 60
         ELSE cfg.short_break_min * 60
    ELSE cfg.pomodoro_min * 60

\* Lines 320-335: seconds left of the phase, counted from latest.start.
PhaseDuration(latest, history, cfg) ==
    LET nominal ==
            IF mode_of_entry(latest) = "Break"
            THEN IF Npomodoros(history) >= cfg.long_break_after
                 THEN cfg.long_break_min * 60
                 ELSE cfg.short_break_min * 60
            ELSE cfg.pomodoro_min * 60
    IN  IF history # << >> /\ history[1][1] = mode_of_entry(latest)
        THEN nominal - history[1][2]
        ELSE nominal

\* Line 336.
FinishTime(latest, es, cfg) ==
    latest.start + PhaseDuration(latest, StreakHistory(latest, es, cfg), cfg)

\* Lines 337-340, given the minutes task_min returned.
TaskFinishTime(latest, es, mins) ==
    IF IsSome(mins)
    THEN Some(latest.start + (Unwrap(mins) * 60 - extra_task_duration(latest, es)))
    ELSE None

(***************************************************************************)
(* Inputs: the histories the Time-Entry Source may return and the instants *)
(* the clock may show.                                                     *)
(***************************************************************************)
Times == {0, 1, 300, 301, 1800, 1801}

\* closed predecessors: one that ends where the latest entry starts, and one
\* of the same sub-task that ended long before it
WorkDone == Entry(-1500, Some(0), 1500, "write", None, << >>)
TaskDoneEarlier == Entry(-2300, Some(-500), 1800, "write", None, <<Tag5min>>)
ClosedEntries == {WorkDone, TaskDoneEarlier}

RunningEntries ==
    { Entry(0, None, -1, "write", None, tags) :
        tags \in { << >>, <<Tag5min>>, <<TagHugeMin>> } }
    \cup { Entry(0, None, -1, "Pomodoro Break", None, << >>) }

Histories ==
    {<< >>} \cup { <<c>> : c \in ClosedEntries }
            \cup { <<r>> : r \in RunningEntries }
            \cup { <<c, r>> : c \in ClosedEntries, r \in RunningEntries }

(***************************************************************************)
(* State.                                                                  *)
(***************************************************************************)
VARIABLES
    config,     \* CONFIG, loaded once by load_config before the threads start
    state,      \* POMODORO_STATE
    now,        \* the wall clock, Local::now()
    pc,         \* where the refresh thread is in monitor/update
    entries,    \* the history the fetch of the current tick returned
    pending,    \* notifier backends update has still to call in this tick
    channel,    \* which escalation is notifying: "phase", "task" or "none"
    msg,        \* the message handed to the notifier backends
    calls,      \* the backend calls of the current tick, with their results
    outcome,    \* how the current tick ended, "running" until it has
    readers,    \* handlers holding the read lock of POMODORO_STATE
    hpc,        \* where each handler is in handle_connection
    seen,       \* what each handler read from POMODORO_STATE
    fresh,      \* the fields of state written from the history of the last tick
    phaseRun,   \* ticks that notified since the phase overrun was last clear
    taskRun     \* ticks that notified since the task overrun was last clear

vars == <<config, state, now, pc, entries, pending, channel, msg, calls,
          outcome, readers, hpc, seen, fresh, phaseRun, taskRun>>

Handlers == 1..NumHandlers

Fields == {"mode", "npomodoros", "finish_time", "task_finish_time",
           "nnotifications", "ntnotifications"}

\* impl Default for PomodoroState
PomodoroStateDefault(t) ==
    [npomodoros |-> 0, nnotifications |-> 0, ntnotifications |-> 0,
     mode |-> "Idle", finish_time |-> t, task_finish_time |-> None]

\* The refresh thread holds the write lock from line 265 to the return.
WriteLocked == pc \in {"locked", "notifying"}

Bump(n) == IF n < MaxRun THEN n + 1 ELSE n

Init ==
    /\ config \in Configs
    /\ now = 0
    /\ state = PomodoroStateDefault(0)
    /\ pc = "sleep"
    /\ entries = << >>
    /\ pending = << >>
    /\ channel = "none"
    /\ msg = << >>
    /\ calls = << >>
    /\ outcome = "none"
    /\ readers = {}
    /\ hpc = [h \in Handlers |-> "idle"]
    /\ seen = [h \in Handlers |-> None]
    /\ fresh = Fields
    /\ phaseRun = 0
    /\ taskRun = 0

(***************************************************************************)
(* The refresh thread: monitor and update.                                 *)
(***************************************************************************)
\* Lines 270-273: nothing is running.
NothingRunning(es) == IF es = << >> THEN TRUE ELSE Last(es).duration >= 0

\* Lines 276-336: the fields update writes before it calls task_min.
RebuildPhase(st, es, cfg) ==
    LET latest == Last(es)
        rest == Front(es)
        history == StreakHistory(latest, rest, cfg)
    IN  [st EXCEPT !.mode = mode_of_entry(latest),
                   !.npomodoros = Npomodoros(history),
                   !.finish_time = FinishTime(latest, rest, cfg)]

\* Lines 276-340: the same with task_finish_time, when task_min succeeds.
Rebuild(st, es, cfg) ==
    [RebuildPhase(st, es, cfg) EXCEPT
        !.task_finish_time =
            TaskFinishTime(Last(es), Front(es), task_min(Last(es)).val)]

\* PhaseMsg announcing the phase that is ending instead of the next one.
PhaseMsgSamePhase(st, latest, cfg) ==
    IF mode_of_entry(latest) = "Break"
    THEN <<"Break", IF st.npomodoros >= cfg.long_break_after
                    THEN cfg.long_break_min
                    ELSE cfg.short_break_min>>
    ELSE <<"Work", cfg.pomodoro_min>>

\* Lines 348-361: the message of a phase notification.
PhaseMsg(st, latest, cfg) ==
    IF mode_of_entry(latest) = "Break"
    THEN <<"Work", cfg.pomodoro_min>>
    ELSE <<"Break", IF st.npomodoros >= cfg.long_break_after
                    THEN cfg.long_break_min
                    ELSE cfg.short_break_min>>

\* Lines 384-386.
TaskMsg == <<"Switch to the next task">>

\* Lines 344-345 and 377-378: seconds left, negative once overrun.
DurSecs(finish, t) == finish - t

\* Lines 363-365.
PhaseShouldNotify(n, dur_secs) ==
    \/ n = 0
    \/ n = 1 /\ dur_secs < -SecondNotifySecs
    \/ n = 2 /\ dur_secs < -ThirdNotifySecs

\* Lines 380-382.
TaskShouldNotify(n, task_dur_secs) ==
    \/ n = 0 /\ task_dur_secs < 0
    \/ n = 1 /\ task_dur_secs < -SecondNotifySecs
    \/ n = 2 /\ task_dur_secs < -ThirdNotifySecs

\* Line 347: the phase is overrun.
PhaseOverrun(st, t) == DurSecs(st.finish_time, t) < 0

\* The sub-task is overrun.
TaskOverrun(st, t) ==
    IsSome(st.task_finish_time) /\ DurSecs(Unwrap(st.task_finish_time), t) < 0

\* monitor, lines 403-404 and update, lines 262-264: the sleep is over, the
\* configuration is read-locked and the fetch is sent.
StartTick ==
    /\ pc = "sleep"
    /\ pc' = "fetching"
    /\ now' \in {t \in Times : t >= now}
    /\ entries' = << >>
    /\ calls' = << >>
    /\ channel' = "none"
    /\ msg' = << >>
    /\ outcome' = "running"
    /\ UNCHANGED <<config, state, pending, readers, hpc, seen, fresh,
                   phaseRun, taskRun>>

\* Line 264: the fetch returns the history.
FetchOk ==
    /\ pc = "fetching"
    /\ entries' \in Histories
    /\ pc' = "fetched"
    /\ UNCHANGED <<config, state, now, pending, channel, msg, calls, outcome,
                   readers, hpc, seen, fresh, phaseRun, taskRun>>

\* FetchErr as it would be with the write lock taken and the mode cleared
\* (lines 265-268) before the fetch of line 264.
FetchErrAfterLock ==
    /\ pc = "fetching"
    /\ readers = {}
    /\ pc' = "sleep"
    /\ outcome' = "fetch_err"
    /\ state' = [state EXCEPT !.mode = "Idle"]
    /\ UNCHANGED <<config, now, entries, pending, channel, msg, calls,
                   readers, hpc, seen, fresh, phaseRun, taskRun>>

\* Line 264 and monitor, lines 404-407: the fetch fails, update returns the
\* error before it touches POMODORO_STATE, monitor prints it and sleeps.
FetchErr ==
    /\ pc = "fetching"
    /\ pc' = "sleep"
    /\ outcome' = "fetch_err"
    /\ UNCHANGED <<config, state, now, entries, pending, channel, msg, calls,
                   readers, hpc, seen, fresh, phaseRun, taskRun>>

\* AcquireWrite without the assignment of line 268.
AcquireWriteKeepsMode ==
    /\ pc = "fetched"
    /\ readers = {}
    /\ pc' = "locked"
    /\ fresh' = {}
    /\ UNCHANGED <<config, state, now, entries, pending, channel, msg, calls,
                   outcome, readers, hpc, seen, phaseRun, taskRun>>

\* Lines 265-268: the write lock is taken once no reader holds the lock, and
\* the mode is set to Idle before anything is computed.
AcquireWrite ==
    /\ pc = "fetched"
    /\ readers = {}
    /\ pc' = "locked"
    /\ state' = [state EXCEPT !.mode = "Idle"]
    /\ fresh' = {}
    /\ UNCHANGED <<config, now, entries, pending, channel, msg, calls, outcome,
                   readers, hpc, seen, phaseRun, taskRun>>

\* Lines 270-273 and 393-394: no entry, or the latest entry is closed; update
\* returns with the mode Idle and every other field as it was.
ReconstructIdle ==
    /\ pc = "locked"
    /\ NothingRunning(entries)
    /\ pc' = "sleep"
    /\ outcome' = "idle"
    /\ fresh' = {"mode"}
    /\ phaseRun' = 0
    /\ taskRun' = 0
    /\ UNCHANGED <<config, state, now, entries, pending, channel, msg, calls,
                   readers, hpc, seen>>

\* Lines 276-337: task_min fails, the ? operator returns the error with
\* mode, npomodoros and finish_time already written.
ReconstructTagErr ==
    /\ pc = "locked"
    /\ ~NothingRunning(entries)
    /\ ~task_min(Last(entries)).ok
    /\ state' = RebuildPhase(state, entries, config.pomodoro)
    /\ pc' = "sleep"
    /\ outcome' = "tag_err"
    /\ fresh' = {"mode", "npomodoros", "finish_time"}
    /\ UNCHANGED <<config, now, entries, pending, channel, msg, calls, readers,
                   hpc, seen, phaseRun, taskRun>>

\* Lines 276-366: the phase is overrun and a notification is due; the
\* backends are called with the write lock held.
PhaseNotify ==
    /\ pc = "locked"
    /\ ~NothingRunning(entries)
    /\ task_min(Last(entries)).ok
    /\ LET st == Rebuild(state, entries, config.pomodoro)
       IN  /\ PhaseOverrun(st, now)
           /\ PhaseShouldNotify(st.nnotifications, DurSecs(st.finish_time, now))
           /\ state' = st
           /\ msg' = PhaseMsg(st, Last(entries), config.pomodoro)
           /\ taskRun' = IF TaskOverrun(st, now) THEN taskRun ELSE 0
    /\ pc' = "notifying"
    /\ channel' = "phase"
    /\ pending' = ConfiguredBackends(config)
    /\ fresh' = {"mode", "npomodoros", "finish_time", "task_finish_time"}
    /\ UNCHANGED <<config, now, entries, calls, outcome, readers, hpc, seen,
                   phaseRun>>

\* Lines 276-372: the phase is overrun and no notification is due.
PhaseSilent ==
    /\ pc = "locked"
    /\ ~NothingRunning(entries)
    /\ task_min(Last(entries)).ok
    /\ LET st == Rebuild(state, entries, config.pomodoro)
       IN  /\ PhaseOverrun(st, now)
           /\ ~PhaseShouldNotify(st.nnotifications, DurSecs(st.finish_time, now))
           /\ state' = [st EXCEPT !.ntnotifications = 0]
           /\ taskRun' = IF TaskOverrun(st, now) THEN taskRun ELSE 0
    /\ pc' = "sleep"
    /\ outcome' = "ok"
    /\ fresh' = Fields
    /\ UNCHANGED <<config, now, entries, pending, channel, msg, calls, readers,
                   hpc, seen, phaseRun>>

\* Lines 276-383: the phase is not overrun, the sub-task is, and a
\* notification is due.
TaskNotify ==
    /\ pc = "locked"
    /\ ~NothingRunning(entries)
    /\ task_min(Last(entries)).ok
    /\ LET st == Rebuild(state, entries, config.pomodoro)
       IN  /\ ~PhaseOverrun(st, now)
           /\ IsSome(st.task_finish_time)
           /\ TaskShouldNotify(st.ntnotifications,
                               DurSecs(Unwrap(st.task_finish_time), now))
           /\ state' = [st EXCEPT !.nnotifications = 0]
    /\ pc' = "notifying"
    /\ channel' = "task"
    /\ msg' = TaskMsg
    /\ pending' = ConfiguredBackends(config)
    /\ fresh' = {"mode", "npomodoros", "finish_time", "task_finish_time",
                 "nnotifications"}
    /\ phaseRun' = 0
    /\ UNCHANGED <<config, now, entries, calls, outcome, readers, hpc, seen,
                   taskRun>>

\* Lines 276-388: the phase is not overrun, the entry has a sub-task and no
\* notification is due; ntnotifications is left as it was.
TaskSilent ==
    /\ pc = "locked"
    /\ ~NothingRunning(entries)
    /\ task_min(Last(entries)).ok
    /\ LET st == Rebuild(state, entries, config.pomodoro)
       IN  /\ ~PhaseOverrun(st, now)
           /\ IsSome(st.task_finish_time)
           /\ ~TaskShouldNotify(st.ntnotifications,
                                DurSecs(Unwrap(st.task_finish_time), now))
           /\ state' = [st EXCEPT !.nnotifications = 0]
           /\ taskRun' = IF TaskOverrun(st, now) THEN taskRun ELSE 0
    /\ pc' = "sleep"
    /\ outcome' = "ok"
    /\ fresh' = Fields
    /\ phaseRun' = 0
    /\ UNCHANGED <<config, now, entries, pending, channel, msg, calls, readers,
                   hpc, seen>>

\* Lines 276-376 and 389-391: the phase is not overrun and the entry has no
\* sub-task.
NoTask ==
    /\ pc = "locked"
    /\ ~NothingRunning(entries)
    /\ task_min(Last(entries)).ok
    /\ LET st == Rebuild(state, entries, config.pomodoro)
       IN  /\ ~PhaseOverrun(st, now)
           /\ ~IsSome(st.task_finish_time)
           /\ state' = [st EXCEPT !.nnotifications = 0, !.ntnotifications = 0]
    /\ pc' = "sleep"
    /\ outcome' = "ok"
    /\ fresh' = Fields
    /\ phaseRun' = 0
    /\ taskRun' = 0
    /\ UNCHANGED <<config, now, entries, pending, channel, msg, calls, readers,
                   hpc, seen>>

\* The observation counter of the channel that is notifying goes up with the
\* first backend call of the tick.
RunsAfterCall ==
    /\ phaseRun' = IF channel = "phase" /\ calls = << >>
                   THEN Bump(phaseRun) ELSE phaseRun
    /\ taskRun' = IF channel = "task" /\ calls = << >>
                  THEN Bump(taskRun) ELSE taskRun

\* Lines 367-369 and 384-386: the next backend is called and succeeds.
NotifyOk ==
    /\ pc = "notifying"
    /\ pending # << >>
    /\ calls' = Append(calls, [backend |-> Head(pending), ok |-> TRUE])
    /\ pending' = Tail(pending)
    /\ RunsAfterCall
    /\ UNCHANGED <<config, state, now, pc, entries, channel, msg, outcome,
                   readers, hpc, seen, fresh>>

\* Lines 367-369 and 384-386: the next backend is called and fails; the ?
\* operator returns the error, the backends after it are not called and the
\* counter is not incremented.
NotifyErr ==
    /\ pc = "notifying"
    /\ pending # << >>
    /\ calls' = Append(calls, [backend |-> Head(pending), ok |-> FALSE])
    /\ pending' = << >>
    /\ RunsAfterCall
    /\ pc' = "sleep"
    /\ outcome' = "notify_err"
    /\ UNCHANGED <<config, state, now, entries, channel, msg, readers, hpc,
                   seen, fresh>>

\* Lines 370-372 and 387: every backend returned Ok; the counter of the
\* channel is incremented and update returns.
NotifyDone ==
    /\ pc = "notifying"
    /\ pending = << >>
    /\ state' = IF channel = "phase"
                THEN [state EXCEPT !.nnotifications = @ + 1,
                                   !.ntnotifications = 0]
                ELSE [state EXCEPT !.ntnotifications = @ + 1]
    /\ pc' = "sleep"
    /\ outcome' = "ok"
    /\ fresh' = Fields
    /\ UNCHANGED <<config, now, entries, pending, channel, msg, calls, readers,
                   hpc, seen, phaseRun, taskRun>>

(***************************************************************************)
(* Query handlers: handle_connection.                                      *)
(***************************************************************************)
\* Lines 435-480: the read lock is taken while no writer holds the lock, and
\* the fields of the reply are read.  std::sync::RwLock promises no priority
\* policy, so a reader may also be let in while the refresh thread waits for
\* the write lock.
HandlerRead(h) ==
    /\ hpc[h] = "idle"
    /\ ~WriteLocked
    /\ readers' = readers \cup {h}
    /\ hpc' = [hpc EXCEPT ![h] = "replying"]
    /\ seen' = [seen EXCEPT ![h] = Some([state |-> state, fresh |-> fresh])]
    /\ UNCHANGED <<config, state, now, pc, entries, pending, channel, msg,
                   calls, outcome, fresh, phaseRun, taskRun>>

\* Lines 481-486: the reply is written (or the write fails) and the read
\* guard is dropped when the function returns.
HandlerReply(h) ==
    /\ hpc[h] = "replying"
    /\ readers' = readers \ {h}
    /\ hpc' = [hpc EXCEPT ![h] = "idle"]
    /\ seen' = [seen EXCEPT ![h] = None]
    /\ UNCHANGED <<config, state, now, pc, entries, pending, channel, msg,
                   calls, outcome, fresh, phaseRun, taskRun>>

Next ==
    \/ StartTick
    \/ FetchOk
    \/ FetchErr
    \/ AcquireWrite
    \/ ReconstructIdle
    \/ ReconstructTagErr
    \/ PhaseNotify
    \/ PhaseSilent
    \/ TaskNotify
    \/ TaskSilent
    \/ NoTask
    \/ NotifyOk
    \/ NotifyErr
    \/ NotifyDone
    \/ \E h \in Handlers : HandlerRead(h)
    \/ \E h \in Handlers : HandlerReply(h)

Spec == Init /\ [][Next]_vars

(***************************************************************************)
(* The reconstruction of lines 276-340 on its own: update applied once to  *)
(* each history of a larger family, with the write lock held and no        *)
(* notification considered.                                                *)
(***************************************************************************)
\* most predecessors of the running entry in a history of the family
MaxPred == 3

Tag25min == Tag(<<2, 5>>, "min")
TagUrgent == Tag(<< >>, "urgent")

\* the running entries of the family: sub-task tags in several positions, a
\* tag that does not parse, no matching tag, and a break
ReconLatest ==
    { Entry(0, None, -1, "write", None, tags) :
        tags \in { <<Tag5min>>, <<TagUrgent, Tag25min, Tag5min>>,
                   <<TagUrgent>>, <<TagHugeMin>> } }
    \cup { Entry(0, None, -1, "Pomodoro Break", None, << >>) }

\* A predecessor is described by what it is (the same task as the running
\* entry, the same task with its tags listed in the opposite order, another
\* task, a break), its duration, the gap between its stop and
\* the start of the entry after it, and whether it has a stop time.
Shape(kind, duration, gap, stopped) ==
    [kind |-> kind, duration |-> duration, gap |-> gap, stopped |-> stopped]

PredShapes ==
    { Shape("same", 1500, g, TRUE) : g \in {0, 120, 121} }
    \cup { Shape("same", 1500, 0, FALSE) }
    \cup { Shape("same", 300, g, TRUE) : g \in {120, 121} }
    \cup { Shape("other", 1500, g, TRUE) : g \in {0, 121} }
    \cup { Shape("break", 600, g, TRUE) : g \in {0, 120} }
    \cup { Shape("break", 900, g, TRUE) : g \in {120, 121} }
    \cup { Shape("reordered", 1500, 0, TRUE) }

RECURSIVE SeqsUpTo(_, _)
SeqsUpTo(S, n) ==
    IF n = 0 THEN { << >> }
    ELSE LET shorter == SeqsUpTo(S, n - 1)
         IN  shorter \cup { Append(s, x) : s \in shorter, x \in S }

\* The same tags in the opposite order.
Reverse(s) == [i \in 1..Len(s) |-> s[Len(s) + 1 - i]]

\* The entries the shapes describe, oldest first; shapes[k] is the k-th
\* predecessor counted back from the running entry.
RECURSIVE BuildPreds(_, _, _, _)
BuildPreds(latest, shapes, k, next_start) ==
    IF k > Len(shapes) THEN << >>
    ELSE LET s == shapes[k]
             stop == next_start - s.gap
             start == stop - s.duration
             e == Entry(start,
                        IF s.stopped THEN Some(stop) ELSE None,
                        s.duration,
                        CASE s.kind \in {"same", "reordered"} -> latest.description
                          [] s.kind = "other" -> "read"
                          [] OTHER -> "Pomodoro Break",
                        None,
                        CASE s.kind = "same" -> latest.tags
                          [] s.kind = "reordered" -> Reverse(latest.tags)
                          [] OTHER -> << >>)
         IN  Append(BuildPreds(latest, shapes, k + 1, start), e)

\* the histories with at most n predecessors
ReconHistories(n) ==
    { Append(BuildPreds(latest, shapes, 1, latest.start), latest) :
        latest \in ReconLatest, shapes \in SeqsUpTo(PredShapes, n) }

\* a configuration file that sets long_break_after = 2
PomodoroConfigLongAfterTwo == [PomodoroConfigDefault EXCEPT !.long_break_after = 2]

ReconConfigs ==
    { c \in Configs : c.notification = {"dbus"} }
    \cup { [notification |-> {"dbus"}, pomodoro |-> PomodoroConfigLongAfterTwo] }

ReconInit ==
    /\ config \in ReconConfigs
    /\ entries \in ReconHistories(MaxPred)
    /\ now = 0
    /\ state = PomodoroStateDefault(0)
    /\ pc = "locked"
    /\ pending = << >>
    /\ channel = "none"
    /\ msg = << >>
    /\ calls = << >>
    /\ outcome = "running"
    /\ readers = {}
    /\ hpc = [h \in Handlers |-> "idle"]
    /\ seen = [h \in Handlers |-> None]
    /\ fresh = {}
    /\ phaseRun = 0
    /\ taskRun = 0

\* Lines 276-340 with task_min returning Ok.
Reconstruct ==
    /\ pc = "locked"
    /\ ~NothingRunning(entries)
    /\ task_min(Last(entries)).ok
    /\ state' = Rebuild(state, entries, config.pomodoro)
    /\ pc' = "rebuilt"
    /\ fresh' = {"mode", "npomodoros", "finish_time", "task_finish_time"}
    /\ UNCHANGED <<config, now, entries, pending, channel, msg, calls, outcome,
                   readers, hpc, seen, phaseRun, taskRun>>

\* The running Work entry of a reconstructed history, closed after d seconds.
Closed(latest, d) ==
    [latest EXCEPT !.stop = Some(latest.start + d), !.duration = d]

\* Two ticks of update around the end of a Work phase.  The first has
\* published state for the running Work entry, and its message for an
\* overrun is the one of lines 348-361; then the entry is stopped, a break
\* is started at most 120 s later, and the next tick reconstructs that
\* history (lines 276-340).
CloseAndBreak ==
    /\ pc = "rebuilt"
    /\ state.mode = "Work"
    /\ \E d \in {1560}, g \in {0, 120} :
          LET work == Closed(Last(entries), d)
              break == Entry(work.start + d + g, None, -1, "Pomodoro Break",
                             None, << >>)
              es == Front(entries) \o <<work, break>>
          IN  /\ entries' = es
              /\ state' = Rebuild(state, es, config.pomodoro)
    /\ msg' = PhaseMsg(state, Last(entries), config.pomodoro)
    /\ channel' = "phase"
    /\ pc' = "break_started"
    /\ UNCHANGED <<config, now, pending, calls, outcome, readers, hpc, seen,
                   fresh, phaseRun, taskRun>>

ReconNext == Reconstruct \/ ReconstructTagErr \/ CloseAndBreak

ReconSpec == ReconInit /\ [][ReconNext]_vars

(***************************************************************************)
(* The program under fair scheduling: the sleep of monitor ends, the fetch *)
(* and every notifier call return, the write lock is granted when it is    *)
(* free again and again, and every reply to a client is written.           *)
(***************************************************************************)
UpdateStep ==
    \/ ReconstructIdle
    \/ ReconstructTagErr
    \/ PhaseNotify
    \/ PhaseSilent
    \/ TaskNotify
    \/ TaskSilent
    \/ NoTask

Fairness ==
    /\ WF_vars(StartTick)
    /\ WF_vars(FetchOk \/ FetchErr)
    /\ SF_vars(AcquireWrite)
    /\ WF_vars(UpdateStep)
    /\ WF_vars(NotifyOk \/ NotifyErr)
    /\ WF_vars(NotifyDone)
    /\ \A h \in Handlers : WF_vars(HandlerReply(h))

\* one configuration file: the defaults, with the D-Bus notifier
LiveInit ==
    /\ Init
    /\ config = [notification |-> {"dbus"}, pomodoro |-> PomodoroConfigDefault]

LiveSpec == LiveInit /\ [][Next]_vars /\ Fairness

(***************************************************************************)
(* Properties.                                                             *)
(***************************************************************************)
\* The tick is over and its fetch succeeded.
TickDone == pc = "sleep" /\ outcome \in {"idle", "tag_err", "notify_err", "ok"}

\* The fetched history ends in a running entry.
LatestRunning == IF entries = << >> THEN FALSE ELSE Last(entries).duration < 0

\* A snapshot is the complete result of one refresh cycle: an Idle result
\* needs its mode from the fetched history, any other result every field.
Complete(snap) ==
    IF snap.state.mode = "Idle" THEN "mode" \in snap.fresh
    ELSE snap.fresh = Fields

\* C1: whatever a query handler reads from POMODORO_STATE is the initial
\* state or the complete result of one refresh cycle, every field derived
\* from the same fetched history; it is never the Idle written at the start
\* of update, nor a state whose mode and finish_time come from a newer
\* history than its task_finish_time, whatever way the tick ended.
C1_ReadersSeeCompleteState ==
    \A h \in Handlers : IsSome(seen[h]) => Complete(Unwrap(seen[h]))

\* C2: after every tick whose fetch succeeded, the published mode is Idle
\* exactly when the fetched history is empty or ends in a closed entry, and
\* otherwise it is the mode of the latest entry.
C2_IdleIffNothingRunning ==
    TickDone =>
        /\ (state.mode = "Idle") <=> ~LatestRunning
        /\ LatestRunning => state.mode = mode_of_entry(Last(entries))

\* C2 witness: a tick found nothing running after a tick that had published
\* a running phase.
C2_Witness ==
    /\ TickDone
    /\ ~LatestRunning
    /\ state.mode = "Idle"
    /\ state.npomodoros >= 1

\* C3: from the start of a tick to the failure of its fetch no step changes
\* a field of POMODORO_STATE, the failed tick calls no notifier backend, and
\* it ends in the sleep of the loop, from which the next tick can start.
C3_FetchFailureKeepsState ==
    /\ [](outcome = "fetch_err" => pc = "sleep" /\ calls = << >>)
    /\ [](pc = "sleep" => ENABLED StartTick)
    /\ [][(pc \in {"sleep", "fetching"}) => (state' = state)]_vars
    /\ [][(pc = "fetching") =>
            (calls' = << >> /\ pc' \in {"fetching", "fetched", "sleep"})]_vars

\* C3 witness: a fetch failed while a running phase with a notification
\* already sent was published.
C3_Witness ==
    /\ pc = "sleep"
    /\ outcome = "fetch_err"
    /\ state.mode # "Idle"
    /\ state.nnotifications >= 1

\* C4: on neither channel is the notifier called in more than 3 ticks of
\* one continuous overrun, backend errors included.
C4_AtMostThreePerOverrun == phaseRun <= 3 /\ taskRun <= 3

\* The escalation table of C5 for counter n and overrun d.
C5_Due(n, d) ==
    \/ n = 0 /\ d >= 0
    \/ n = 1 /\ d > SecondNotifySecs
    \/ n = 2 /\ d > ThirdNotifySecs

\* C5: in a tick with a running latest entry and phase overrun
\* d = now - finish_time, the phase notification fires exactly when
\* (count = 0 and d >= 0) or (count = 1 and d > 300) or (count = 2 and
\* d > 1800); a silent tick with d >= 0 leaves the counter as it was and a
\* tick that fired ends with the counter one higher.
C5_PhaseEscalationTable ==
    /\ [][(pc = "locked" /\ LatestRunning) =>
            LET d == now - state'.finish_time
                fires == pc' = "notifying" /\ channel' = "phase"
            IN  /\ fires <=> C5_Due(state.nnotifications, d)
                /\ (~fires /\ d >= 0) =>
                       state'.nnotifications = state.nnotifications]_vars
    /\ [][(pc = "notifying" /\ channel = "phase" /\ pc' = "sleep") =>
            state'.nnotifications = state.nnotifications + 1]_vars

\* C6: after every tick with a running latest entry and now < finish_time,
\* no phase notification has fired and nnotifications is 0.
C6_PhaseCounterResets ==
    (TickDone /\ LatestRunning /\ now < state.finish_time) =>
        /\ channel # "phase"
        /\ state.nnotifications = 0

\* C7: after every tick with a running latest entry, no phase overrun and a
\* sub-task that is not yet due (now < task_finish_time), ntnotifications
\* is 0.
C7_TaskCounterResets ==
    (/\ pc = "sleep" /\ outcome = "ok"
     /\ LatestRunning
     /\ now <= state.finish_time
     /\ IsSome(state.task_finish_time)
     /\ now < Unwrap(state.task_finish_time))
        => state.ntnotifications = 0

\* C8: after every tick that fetched an empty history or one that ends in a
\* closed entry, the published state is Idle with npomodoros, nnotifications
\* and ntnotifications all 0.
C8_IdleZeroesCounters ==
    (TickDone /\ ~LatestRunning) =>
        /\ state.mode = "Idle"
        /\ state.npomodoros = 0
        /\ state.nnotifications = 0
        /\ state.ntnotifications = 0

\* C9: when a backend fails in a tick that notifies, every configured
\* backend has still been called in that tick and the state the tick
\* reconstructed is published.
C9_BackendFailureIsolated ==
    (pc = "sleep" /\ outcome = "notify_err") =>
        /\ \A b \in config.notification :
               \E i \in 1..Len(calls) : calls[i].backend = b
        /\ {"mode", "npomodoros", "finish_time", "task_finish_time"}
               \subseteq fresh

\* C10: after a tick whose running latest entry has a tag that matches the
\* pattern but does not parse, mode, npomodoros and finish_time are those
\* of the new history, task_finish_time is absent, and the phase escalation
\* has been evaluated: the counter is 0 when the phase is not overrun, and
\* when it is overrun the tick notified or the counter is already above 0.
C10_MalformedTagSkipsSubTask ==
    (pc = "sleep" /\ outcome # "running" /\ LatestRunning
       /\ ~task_min(IF LatestRunning THEN Last(entries) ELSE Entry(0, None, -1, "", None, << >>)).ok) =>
        /\ state.mode = mode_of_entry(Last(entries))
        /\ state.finish_time =
               FinishTime(Last(entries), Front(entries), config.pomodoro)
        /\ state.task_finish_time = None
        /\ now <= state.finish_time => state.nnotifications = 0
        /\ now > state.finish_time =>
               (channel = "phase" \/ state.nnotifications >= 1)


\* C11: after every tick in which the phase is overrun no task notification
\* has fired and ntnotifications is 0, and after every tick with a running
\* entry whose task_finish_time is absent ntnotifications is 0.
C11_TaskChannelSuppressed ==
    /\ (TickDone /\ LatestRunning /\ now > state.finish_time) =>
           (channel # "task" /\ state.ntnotifications = 0)
    /\ (TickDone /\ LatestRunning /\ ~IsSome(state.task_finish_time)) =>
           state.ntnotifications = 0

\* C12: in every state of POMODORO_STATE, whatever ticks succeeded or
\* failed before, a mode other than Idle comes with npomodoros >= 1; so
\* does every state a handler has read.
C12_RunningHasPomodoro ==
    /\ state.mode # "Idle" => state.npomodoros >= 1
    /\ \A h \in Handlers :
           (IsSome(seen[h]) /\ Unwrap(seen[h]).state.mode # "Idle") =>
               Unwrap(seen[h]).state.npomodoros >= 1

\* C12 witness: a handler has read a running phase that a tick published
\* although the tick ended in the error of task_min.
C12_Witness ==
    /\ outcome = "tag_err"
    /\ \E h \in Handlers :
           IsSome(seen[h]) /\ Unwrap(seen[h]).state.mode # "Idle"


\* C17: a phase notification names the next phase and its nominal minutes:
\* Work with pomodoro_min when the phase is Break, Break with long_break_min
\* when the phase is Work and npomodoros >= long_break_after, and Break with
\* short_break_min otherwise; a task notification carries the fixed
\* switch-to-the-next-task message and no phase or minutes.
C17_NotificationNamesNextPhase ==
    /\ channel = "phase" =>
           msg = IF state.mode = "Break"
                 THEN <<"Work", config.pomodoro.pomodoro_min>>
                 ELSE IF state.npomodoros >= config.pomodoro.long_break_after
                      THEN <<"Break", config.pomodoro.long_break_min>>
                      ELSE <<"Break", config.pomodoro.short_break_min>>
    /\ channel = "task" => msg = <<"Switch to the next task">>
    /\ calls # << >> => channel \in {"phase", "task"}

\* C17 witness: a backend has been called with the announcement of a long
\* break.
C17_Witness ==
    /\ channel = "phase"
    /\ calls # << >>
    /\ state.mode = "Work"
    /\ msg = <<"Break", default_long_break_min>>


(***************************************************************************)
(* The contract of the reconstruction, stated on the fetched history       *)
(* itself: entries[Len(entries)] is the running entry, entries[i] with a   *)
(* smaller i are its predecessors.                                         *)
(***************************************************************************)
\* The reconstruction has been applied to a running entry.
Rebuilt == pc \in {"rebuilt", "sleep"} /\ outcome \in {"running", "tag_err"}

Preds == 1..(Len(entries) - 1)

\* Every entry from i up to the running one follows its predecessor closely:
\* it has a stop time, at most 120 s before the start of the next entry.
Linked(i) ==
    \A j \in i..(Len(entries) - 1) :
        /\ IsSome(entries[j].stop)
        /\ entries[j + 1].start - Unwrap(entries[j].stop) <= 120

\* The newest entry of the run of same-phase predecessors that holds i.
RunEnd(i) ==
    CHOOSE k \in i..(Len(entries) - 1) :
        /\ \A j \in i..k : mode_of_entry(entries[j]) = mode_of_entry(entries[i])
        /\ k = Len(entries) - 1
           \/ mode_of_entry(entries[k + 1]) # mode_of_entry(entries[i])

RECURSIVE SumDurations(_, _)
SumDurations(lo, hi) ==
    IF lo > hi THEN 0 ELSE entries[lo].duration + SumDurations(lo + 1, hi)

\* Walking back, the Break bucket reaches long_break_min*60 at entry i.
LongBreakAt(i) ==
    /\ Linked(i)
    /\ mode_of_entry(entries[i]) = "Break"
    /\ SumDurations(i, RunEnd(i)) >= config.pomodoro.long_break_min * 60

HasBoundary == \E i \in Preds : LongBreakAt(i)

\* The first long break the walk meets.
Boundary == CHOOSE i \in Preds : LongBreakAt(i) /\ \A j \in Preds : LongBreakAt(j) => j <= i

\* Number of buckets the entries lo..hi fall into.
Buckets(lo, hi) ==
    Cardinality({ j \in lo..hi :
        \/ j = hi
        \/ mode_of_entry(entries[j]) # mode_of_entry(entries[j + 1]) })

\* C13: when the streak walk meets a Break bucket that has accumulated
\* long_break_min*60 seconds, npomodoros is floor(n/2) + 1 for the n buckets
\* of the entries strictly more recent than that bucket: neither the long
\* break nor any entry before it is counted.
C13_LongBreakEndsStreak ==
    (Rebuilt /\ HasBoundary) =>
        state.npomodoros =
            (Buckets(RunEnd(Boundary) + 1, Len(entries) - 1) \div 2) + 1

\* C13 witness: a long break with an older linked entry before it and a
\* more recent bucket after it.
C13_Witness ==
    /\ Rebuilt
    /\ HasBoundary
    /\ Boundary > 1
    /\ Linked(1)
    /\ Buckets(RunEnd(Boundary) + 1, Len(entries) - 1) >= 1


\* Nominal seconds of the published phase.
Nominal ==
    IF state.mode = "Break"
    THEN IF state.npomodoros >= config.pomodoro.long_break_after
         THEN config.pomodoro.long_break_min * 60
         ELSE config.pomodoro.short_break_min * 60
    ELSE config.pomodoro.pomodoro_min * 60

\* The predecessors that reach the running entry through entries of its own
\* phase only, each with a stop time and a gap of at most 120 s.
SameRun ==
    { i \in Preds :
        /\ Linked(i)
        /\ \A j \in i..(Len(entries) - 1) :
               mode_of_entry(entries[j]) = mode_of_entry(Last(entries)) }

SameRunSum ==
    IF SameRun = {} THEN 0
    ELSE SumDurations(CHOOSE i \in SameRun : \A j \in SameRun : i <= j,
                      Len(entries) - 1)

\* C14 as stated: finish_time is latest.start plus the nominal seconds minus
\* the durations of the same-phase predecessors that have a stop time and a
\* gap of at most 120 s, whatever the phase; nothing is subtracted for a
\* predecessor without a stop time or further away than 120 s.
C14_SubtractsEverySamePhaseRun ==
    Rebuilt => state.finish_time = Last(entries).start + Nominal - SameRunSum

\* The same-phase run is a Break bucket of long_break_min*60 seconds or more,
\* which the streak walk drops.
SameRunDropped ==
    /\ mode_of_entry(Last(entries)) = "Break"
    /\ SameRunSum >= config.pomodoro.long_break_min * 60

\* C14, amended: finish_time is latest.start plus the nominal seconds minus
\* s, where s is the sum of the durations of the same-phase predecessors
\* that have a stop time and a gap of at most 120 s, unless they are a Break
\* bucket of long_break_min*60 seconds or more, and 0 otherwise.
C14_SubtractsSamePhaseRun ==
    Rebuilt =>
        state.finish_time =
            Last(entries).start + Nominal
                - (IF SameRunDropped THEN 0 ELSE SameRunSum)

\* C14 witness: a Work predecessor stopped exactly 120 s before the running
\* Work entry is subtracted, the Work entry stopped 121 s before that
\* predecessor is not.
C14_Witness ==
    /\ Rebuilt
    /\ Len(entries) = 3
    /\ \A i \in 1..3 : mode_of_entry(entries[i]) = "Work"
    /\ IsSome(entries[2].stop) /\ IsSome(entries[1].stop)
    /\ entries[3].start - Unwrap(entries[2].stop) = 120
    /\ entries[2].start - Unwrap(entries[1].stop) = 121
    /\ entries[1].duration > 0
    /\ state.finish_time = entries[3].start + Nominal - entries[2].duration

\* The scenario: a closed Work entry of 25 minutes, then a running Work
\* entry that starts when it stops, with pomodoro_min = 25.
C15_Scenario ==
    /\ Len(entries) = 2
    /\ mode_of_entry(entries[1]) = "Work"
    /\ entries[1].duration = 25 * 60
    /\ entries[1].stop = Some(entries[1].start + 25 * 60)
    /\ mode_of_entry(entries[2]) = "Work"
    /\ entries[2].start = entries[1].start + 25 * 60
    /\ entries[2].duration = -1
    /\ config.pomodoro.pomodoro_min = 25

\* C15 as stated: in the scenario the refresh publishes Work, npomodoros = 1
\* and finish_time = T + 50 minutes, T the start of the closed entry.
C15_FinishAtFiftyMinutes ==
    (Rebuilt /\ C15_Scenario) =>
        /\ state.mode = "Work"
        /\ state.npomodoros = 1
        /\ state.finish_time = entries[1].start + 50 * 60

\* C15, amended: in the scenario the refresh publishes Work, npomodoros = 1
\* and finish_time = T + 25 minutes: the 25 minutes of the closed entry are
\* subtracted from the 25 nominal minutes of the running one.
C15_FinishAtTwentyFiveMinutes ==
    (Rebuilt /\ C15_Scenario) =>
        /\ state.mode = "Work"
        /\ state.npomodoros = 1
        /\ state.finish_time = entries[1].start + 25 * 60

\* C15 witness: the scenario has been reconstructed.
C15_Witness ==
    /\ Rebuilt
    /\ C15_Scenario
    /\ state.finish_time = entries[2].start


\* Entry i is the same task as the running entry.
SameTask(i) ==
    /\ entries[i].description = Last(entries).description
    /\ entries[i].pid = Last(entries).pid
    /\ entries[i].tags = Last(entries).tags

\* The Work predecessors with no Work entry of another task between them
\* and the running entry, whatever their stop times and gaps.
EarlierFragments ==
    { i \in Preds :
        /\ mode_of_entry(entries[i]) = "Work"
        /\ \A j \in i..(Len(entries) - 1) :
               mode_of_entry(entries[j]) = "Work" => SameTask(j) }

RECURSIVE SumFragments(_)
SumFragments(i) ==
    IF i = 0 THEN 0
    ELSE (IF i \in EarlierFragments THEN entries[i].duration ELSE 0)
             + SumFragments(i - 1)

ExpectedExtra ==
    IF mode_of_entry(Last(entries)) = "Break" THEN 0
    ELSE SumFragments(Len(entries) - 1)

MatchingTags ==
    { i \in 1..Len(Last(entries).tags) : ReMatches(Last(entries).tags[i]) }

FirstMatchingTag ==
    Last(entries).tags[CHOOSE i \in MatchingTags : \A j \in MatchingTags : i <= j]

\* C16: after the reconstruction of a running entry, task_finish_time is
\* absent when no tag matches ^(\d+)min$ and present otherwise, and when the
\* number N of the first matching tag is a u32 it is latest.start +
\* (N*60 - extra), extra being 0 for a Break and otherwise the durations of
\* the earlier fragments of the same task, whatever their gaps and stops.
C16_TaskFinishTime ==
    Rebuilt =>
        IF MatchingTags = {} THEN ~IsSome(state.task_finish_time)
        ELSE /\ IsSome(state.task_finish_time)
             /\ FitsU32(FirstMatchingTag.digits) =>
                    Unwrap(state.task_finish_time) =
                        Last(entries).start
                            + (DigitsValue(FirstMatchingTag.digits) * 60
                                   - ExpectedExtra)

\* The part of C16 the code keeps: the same whenever task_min returns Ok.
TaskFinishTimeWhenParsed ==
    (Rebuilt /\ outcome # "tag_err") => C16_TaskFinishTime

\* A history on which the two walks differ has been reconstructed: an
\* earlier fragment further than 120 s away counts for the sub-task budget
\* of an entry whose sub-task tag is not the first of its tags.
TwoWalksDiffer ==
    /\ Rebuilt
    /\ Len(Last(entries).tags) > 1
    /\ state.task_finish_time = Some(25 * 60 - ExpectedExtra)
    /\ ExpectedExtra > 0
    /\ ~Linked(Len(entries) - 1)


\* The last tick ended in an error.
TickFailed == pc = "sleep" /\ outcome \in {"fetch_err", "tag_err", "notify_err"}

\* Every field the reconstruction of the fetched history determines has been
\* written from it.
PublishedFromEntries ==
    IF NothingRunning(entries) THEN "mode" \in fresh
    ELSE {"mode", "npomodoros", "finish_time", "task_finish_time"} \subseteq fresh

\* The loop part of C18: after a tick that ended in an error the next tick
\* starts.
NextTickAlwaysComes == TickFailed ~> (pc = "fetching")

\* C18: under fair scheduling, after a tick that ended in an error another
\* tick is eventually executed, and once a fetch has succeeded the published
\* state eventually is the reconstruction of the fetched history.
C18_RefreshNeverStops ==
    /\ TickFailed ~> (pc = "fetching")
    /\ (pc = "fetched") ~> (TickDone /\ PublishedFromEntries)


\* The refresh thread is inside an external call: the fetch, or the call of
\* a notifier backend.
InExternalCall == pc = "fetching" \/ (pc = "notifying" /\ pending # << >>)

\* C19: while the refresh thread is inside an external call it does not hold
\* the write lock, and every handler that wants the read lock can take it.
C19_NoExternalCallUnderWriteLock ==
    InExternalCall =>
        /\ ~WriteLocked
        /\ \A h \in Handlers : hpc[h] = "idle" => ENABLED HandlerRead(h)

\* C20: while a handler is writing its reply it does not hold the read lock:
\* a refresh thread that has fetched can take the write lock.
C20_ReplyOutsideReadLock ==
    \A h \in Handlers :
        hpc[h] = "replying" =>
            /\ h \notin readers
            /\ pc = "fetched" => ENABLED AcquireWrite


\* No thread waits for a lock that can never be released: whenever the
\* refresh thread waits for the write lock a handler can give its read lock
\* back, whenever a handler cannot read the refresh thread can step, and some
\* step is always possible.
NoCircularWait ==
    /\ (pc = "fetched" /\ ~ENABLED AcquireWrite) =>
           \E h \in Handlers : ENABLED HandlerReply(h)
    /\ WriteLocked => ENABLED (UpdateStep \/ NotifyOk \/ NotifyErr \/ NotifyDone)
    /\ ENABLED Next

\* C21: under fair scheduling, with every external call and every client
\* write terminating, the refresh thread that requests the write lock gets
\* it and gives it back, and every handler that holds the read lock gives
\* it back with its reply.
C21_EveryLockRequestIsServed ==
    /\ (pc = "fetched") ~> WriteLocked
    /\ WriteLocked ~> ~WriteLocked
    /\ \A h \in Handlers : (hpc[h] = "replying") ~> (hpc[h] = "idle")


\* C22: when a Work entry is closed and a break starts within 120 s of its
\* stop, the minutes the Work phase announced for the break are the nominal
\* minutes of the Break phase: finish_time of the break is its start plus
\* the announced minutes.
C22_AnnouncedBreakIsTheBreakUsed ==
    pc = "break_started" =>
        /\ msg[1] = "Break"
        /\ state.mode = "Break"
        /\ state.finish_time = Last(entries).start + msg[2] * 60


TagSet(entry) == { entry.tags[i] : i \in 1..Len(entry.tags) }

\* Entry i is the same task as the running entry, its tags taken as a set.
SameTaskAnyOrder(i) ==
    /\ entries[i].description = Last(entries).description
    /\ entries[i].pid = Last(entries).pid
    /\ TagSet(entries[i]) = TagSet(Last(entries))

EarlierFragmentsAnyOrder ==
    { i \in Preds :
        /\ mode_of_entry(entries[i]) = "Work"
        /\ \A j \in i..(Len(entries) - 1) :
               mode_of_entry(entries[j]) = "Work" => SameTaskAnyOrder(j) }

RECURSIVE SumFragmentsAnyOrder(_)
SumFragmentsAnyOrder(i) ==
    IF i = 0 THEN 0
    ELSE (IF i \in EarlierFragmentsAnyOrder THEN entries[i].duration ELSE 0)
             + SumFragmentsAnyOrder(i - 1)

\* C23: for a running Work entry whose sub-task tag parses, the time taken
\* off the sub-task budget is the duration of the earlier fragments with
\* the same description, project and set of tags, in whatever order the
\* tags are listed.
C23_TagOrderIrrelevant ==
    (/\ Rebuilt
     /\ outcome # "tag_err"
     /\ state.mode = "Work"
     /\ MatchingTags # {}) =>
        state.task_finish_time =
            Some(Last(entries).start
                    + (DigitsValue(FirstMatchingTag.digits) * 60
                           - SumFragmentsAnyOrder(Len(entries) - 1)))

=============================================================================
